---- MODULE Spec2Model ----
(***************************************************************************)
(* The personalization layer of nusmods:                                   *)
(*   - the theme picker of the Backbone app (themePicker.js) and the       *)
(*     preferences view that drives it (savePreference),                   *)
(*   - the KeyboardShortcuts view of the React website, which installs its *)
(*     key bindings in the global Mousetrap table while it is mounted.     *)
(* The two halves share no state: ThemeSpec runs the first, KeysSpec and   *)
(* KeysMultiSpec the second, HelpSpec the grouping of the help listing.    *)
(***************************************************************************)
EXTENDS Integers, Sequences, FiniteSets, TLC

\* ------------------------------------------------------------------ bounds
\* longest theme catalog (themeOptions.json) considered
MaxCatalog == 3
\* most localforage writes that may be in flight at once
MaxPending == 2

\* ------------------------------------------------------------- value sets
\* theme values that may appear in themeOptions.json, in the order in which
\* a catalog first uses them
ThemeNames == <<"A", "B", "C", "D">>
ThemeIds == {ThemeNames[i] : i \in 1..Len(ThemeNames)}
\* a theme value that no catalog holds
UnknownTheme == "X"
Modes == {"default", "slate"}
\* JavaScript's undefined / null, and an element that is not in the page
None == "none"
Directions == {"Left", "Right"}
\* data-pref-type of the form elements the model follows
PrefProperties == {"faculty", "mode", "theme"}
\* the faculty value savePreference turns down (any other faculty, like any
\* 'student' value, is stored as it is and touches nothing else)
Faculties == {"default"}

VARIABLES
  \* ---- themePicker.js / preferences view
  themeOptions,     \* the catalog: a sequence of theme values
  dataTheme,        \* $('body').attr('data-theme')
  dataMode,         \* $('body').attr('data-mode')
  bodyClass,        \* the classes of <body>, as [mode, theme]
  themeOptionsVal,  \* $('#theme-options').val(), None when not in the page
  modeRadiosVal,    \* the checked mode radio, None when not in the page
  modeHref,         \* $('#mode').attr('href')
  prefsOpen,        \* the preferences view is the page shown
  pending,          \* localforage.setItem calls not yet completed (FIFO)
  store,            \* what localforage holds
  pc,               \* "idle", or "loop" inside selectRandomTheme's do-while
  currentTheme,     \* selectRandomTheme's local currentTheme
  newTheme,         \* selectRandomTheme's local newTheme
  lastOp,           \* history: the last call and the appearance before it
  hist,             \* history: the latest consecutive selectNextTheme calls
  toggles,          \* history: the mode before each of the latest consecutive
                    \* toggleMode calls (two at most)
  \* ---- KeyboardShortcuts.tsx
  mounted,          \* per view: its effect has run and was not cleaned up
  shortcuts,        \* per view: shortcuts.current
  helpShown,        \* per view: the helpShown state
  closure,          \* per view: helpShown and colorScheme as the effect captured them
  table,            \* Mousetrap's global pattern -> callback table
  seqLevel,         \* Mousetrap's _sequenceLevels of the 10-key sequence
  colorScheme,      \* useColorScheme()
  route,            \* history.location
  themeId,          \* store.getState().theme.id (index into the themes list)
  orientation,      \* timetable orientation in the redux store
  notification,     \* the last openNotification message
  lastFired,        \* history: the callback invoked by the key event that
                    \* was the last step, the visibility of the help it found
                    \* and whether an exception left the dispatch
  typed,            \* history: the key events since one that found the
                    \* sequence buffer empty, compared with the 10-key sequence
  cleanups,         \* history, per view: calls of the cleanup since its effect ran
  \* ---- the help listing of KeyboardShortcuts.tsx, as a function of the list
  listing,          \* the list of bindings the render groups
  sections          \* the groups rendered, in order

themeVars == <<themeOptions, dataTheme, dataMode, bodyClass, themeOptionsVal,
               modeRadiosVal, modeHref, prefsOpen, pending, store, pc,
               currentTheme, newTheme, lastOp, hist, toggles>>
keyVars == <<mounted, shortcuts, helpShown, closure, table, seqLevel, colorScheme,
             route, themeId, orientation, notification, lastFired, typed, cleanups>>
helpVars == <<listing, sections>>
vars == <<themeVars, keyVars, helpVars>>

\* ------------------------------------------------------------ JS helpers
Range(s) == {s[i] : i \in 1..Len(s)}

Distinct(s) == \A i, j \in 1..Len(s) : s[i] = s[j] => i = j

Min(S) == CHOOSE x \in S : \A y \in S : x <= y

\* Array.prototype.indexOf: 0-based, -1 when absent
IndexOf(s, x) ==
  IF x \in Range(s) THEN Min({i \in 1..Len(s) : s[i] = x}) - 1 ELSE -1

\* JavaScript's %: the sign of the result is the sign of the dividend
JsMod(a, b) == IF a >= 0 THEN a % b ELSE 0 - ((0 - a) % b)

\* array[i] for a 0-based index i
At(s, i) == s[i + 1]

Max(S) == CHOOSE x \in S : \A y \in S : x >= y

\* the catalogs of up to MaxCatalog entries, repeated values included, one
\* for each way of naming the themes: an entry is a value already used or
\* the first unused one
FirstUse(c) ==
  \A i \in 1..Len(c) :
    IndexOf(ThemeNames, c[i]) <= 1 + Max({IndexOf(ThemeNames, c[j]) : j \in 1..(i - 1)} \cup {-1})

Catalogs == {c \in UNION {[1..n -> ThemeIds] : n \in 1..MaxCatalog} : FirstUse(c)}


\* ----------------------------------------------- localforage (collaborator)
\* localforage.setItem(property, value): queued, completed later by StoreApply
SetItem(q, property, value) == Append(q, [key |-> property, value |-> value])

\* ------------------------------------------------------- themePicker.js
\* $('#theme-options').val(v): a select shows v only if it has that option
SelectVal(v) == IF v \in Range(themeOptions) THEN v ELSE None

\* a slip: the appearance changes and nothing is written to the store
updateAppearance_noWrite(property, value, q) ==
  /\ pending' = q
  /\ dataTheme' = IF property = "theme" THEN value ELSE dataTheme
  /\ dataMode' = IF property = "mode" THEN value ELSE dataMode
  /\ bodyClass' = [mode |-> dataMode', theme |-> dataTheme']

\* updateAppearance(property, value), q being the writes queued so far
updateAppearance(property, value, q) ==
  /\ pending' = SetItem(q, property, value)
  /\ dataTheme' = IF property = "theme" THEN value ELSE dataTheme
  /\ dataMode' = IF property = "mode" THEN value ELSE dataMode
  /\ bodyClass' = [mode |-> dataMode', theme |-> dataTheme']

\* applyTheme(newTheme)
applyTheme(theme, q) ==
  /\ themeOptionsVal' = IF prefsOpen THEN SelectVal(theme) ELSE themeOptionsVal
  /\ UNCHANGED <<modeRadiosVal, modeHref>>
  /\ updateAppearance("theme", theme, q)

\* a slip: the mode is set to 'slate' whatever it was
NewMode_stuck(mode) == "slate"

\* toggleMode's newMode
NewMode(mode) == IF mode = "default" THEN "slate" ELSE "default"

\* toggleMode's cssFile
CssFile(mode) == IF mode # "default" THEN "/styles/" \o mode \o ".min.css" ELSE ""

\* toggleMode()
toggleMode(q) ==
  LET mode == NewMode(dataMode) IN
  /\ modeRadiosVal' = IF prefsOpen THEN mode ELSE modeRadiosVal
  /\ modeHref' = CssFile(mode)
  /\ UNCHANGED themeOptionsVal
  /\ updateAppearance("mode", mode, q)

\* a slip: the two directions exchanged
NewIndex_swapped(allThemes, current, direction) ==
  LET newIndex == IndexOf(allThemes, current) + (IF direction = "Left" THEN 1 ELSE -1)
  IN JsMod(newIndex + Len(allThemes), Len(allThemes))

\* a slip: the index stops at the ends of the catalog instead of wrapping
NewIndex_clamped(allThemes, current, direction) ==
  LET newIndex == IndexOf(allThemes, current) + (IF direction = "Left" THEN -1 ELSE 1)
  IN IF newIndex < 0 THEN 0
     ELSE IF newIndex >= Len(allThemes) THEN Len(allThemes) - 1 ELSE newIndex

\* selectNextTheme's newIndex
NewIndex(allThemes, current, direction) ==
  LET newIndex == IndexOf(allThemes, current) + (IF direction = "Left" THEN -1 ELSE 1)
  IN JsMod(newIndex + Len(allThemes), Len(allThemes))

\* a slip: the first draw is taken whatever it is
LoopAgain_never(new, current) == FALSE

\* the loop condition of selectRandomTheme's do-while
LoopAgain(new, current) == new = current

\* the appearance a call starts from, kept with the call's name
Call(op, property, arg) ==
  [op |-> op, property |-> property, arg |-> arg, theme |-> dataTheme,
   mode |-> dataMode, pendLen |-> Len(pending)]

\* the last n entries of s, or all of s when it has fewer
Last(s, n) == IF Len(s) > n THEN SubSeq(s, Len(s) - n + 1, Len(s)) ELSE s

\* the number of 'Right' calls that s ends with
RECURSIVE RightRun(_)
RightRun(s) ==
  IF s = <<>> \/ s[Len(s)].dir # "Right" THEN 0
  ELSE 1 + RightRun(SubSeq(s, 1, Len(s) - 1))

\* what the history keeps of a run of selectNextTheme calls: its last two
\* calls, or the 'Right' calls it ends with, up to MaxCatalog of them
Window(s) ==
  LET n == RightRun(s) IN
  IF n < 2 THEN Last(s, 2)
  ELSE IF n > MaxCatalog THEN Last(s, MaxCatalog) ELSE Last(s, n)

Idle == pc = "idle"

\* selectNextTheme(direction)
SelectNextTheme(direction) ==
  /\ UNCHANGED <<keyVars, helpVars>>
  /\ Idle
  /\ Len(pending) < MaxPending
  /\ LET allThemes == themeOptions
         theme == At(themeOptions, NewIndex(allThemes, dataTheme, direction))
     IN /\ applyTheme(theme, pending)
        /\ hist' = Window(Append(hist, [dir |-> direction, before |-> dataTheme,
                                        after |-> theme]))
  /\ toggles' = <<>>
  /\ lastOp' = Call("selectNextTheme", None, direction)
  /\ UNCHANGED <<themeOptions, prefsOpen, store, pc, currentTheme, newTheme>>

\* selectRandomTheme(), up to the do-while
SelectRandomTheme ==
  /\ UNCHANGED <<keyVars, helpVars>>
  /\ Idle
  /\ Len(pending) < MaxPending
  /\ pc' = "loop"
  /\ currentTheme' = dataTheme
  /\ newTheme' = None
  /\ lastOp' = Call("selectRandomTheme", None, None)
  /\ hist' = <<>>
  /\ toggles' = <<>>
  /\ UNCHANGED <<themeOptions, dataTheme, dataMode, bodyClass, themeOptionsVal,
                 modeRadiosVal, modeHref, prefsOpen, pending, store>>

\* one pass of the do-while and, when it ends, the applyTheme after it
RandomLoop ==
  /\ UNCHANGED <<keyVars, helpVars>>
  /\ pc = "loop"
  /\ \E i \in 0..(Len(themeOptions) - 1) :
       /\ newTheme' = At(themeOptions, i)
       /\ IF LoopAgain(newTheme', currentTheme)
          THEN UNCHANGED <<pc, dataTheme, dataMode, bodyClass, themeOptionsVal,
                           modeRadiosVal, modeHref, pending>>
          ELSE /\ pc' = "idle"
               /\ applyTheme(newTheme', pending)
  /\ UNCHANGED <<themeOptions, prefsOpen, store, currentTheme, lastOp, hist, toggles>>

\* applyTheme(newTheme), called directly
ApplyTheme(theme) ==
  /\ UNCHANGED <<keyVars, helpVars>>
  /\ Idle
  /\ Len(pending) < MaxPending
  /\ applyTheme(theme, pending)
  /\ lastOp' = Call("applyTheme", None, theme)
  /\ hist' = <<>>
  /\ toggles' = <<>>
  /\ UNCHANGED <<themeOptions, prefsOpen, store, pc, currentTheme, newTheme>>

\* toggleMode(), called directly
ToggleMode ==
  /\ UNCHANGED <<keyVars, helpVars>>
  /\ Idle
  /\ Len(pending) < MaxPending
  /\ toggleMode(pending)
  /\ lastOp' = Call("toggleMode", None, None)
  /\ hist' = <<>>
  /\ toggles' = Last(Append(toggles, dataMode), 2)
  /\ UNCHANGED <<themeOptions, prefsOpen, store, pc, currentTheme, newTheme>>

\* ------------------------------------------- preferences view (part_000)
\* the theme values a caller may pass: those of the catalog, and one that
\* the catalog does not hold
ThemeArgs == Range(themeOptions) \cup {UnknownTheme}

\* the values of the form element of a property
PrefValues(property) ==
  CASE property = "faculty" -> Faculties
    [] property = "mode" -> Modes
    [] property = "theme" -> ThemeArgs

\* savePreference(property, value)
SavePreference(property, value) ==
  /\ UNCHANGED <<keyVars, helpVars>>
  /\ Idle
  /\ prefsOpen
  /\ Len(pending) + 2 <= MaxPending
  /\ lastOp' = Call("savePreference", property, value)
  /\ hist' = <<>>
  /\ toggles' = <<>>
  /\ IF property = "faculty" /\ value = "default"
     THEN UNCHANGED <<dataTheme, dataMode, bodyClass, themeOptionsVal,
                      modeRadiosVal, modeHref, pending>>
     ELSE LET q == SetItem(pending, property, value) IN
          CASE property = "theme" -> applyTheme(value, q)
            [] property = "mode" -> toggleMode(q)
            [] OTHER -> /\ pending' = q
                        /\ UNCHANGED <<dataTheme, dataMode, bodyClass,
                                       themeOptionsVal, modeRadiosVal, modeHref>>
  /\ UNCHANGED <<themeOptions, prefsOpen, store, pc, currentTheme, newTheme>>

\* the oldest localforage.setItem completes
StoreApply ==
  /\ UNCHANGED <<keyVars, helpVars>>
  /\ Idle
  /\ pending # <<>>
  /\ store' = [store EXCEPT ![Head(pending).key] = Head(pending).value]
  /\ pending' = Tail(pending)
  /\ lastOp' = Call("setItem done", None, None)
  /\ UNCHANGED <<themeOptions, dataTheme, dataMode, bodyClass, themeOptionsVal,
                 modeRadiosVal, modeHref, prefsOpen, pc, currentTheme, newTheme, hist,
                 toggles>>

ThemeInit ==
  /\ themeOptions \in Catalogs
  /\ dataTheme \in Range(themeOptions)
  /\ dataMode \in Modes
  /\ bodyClass = [mode |-> dataMode, theme |-> dataTheme]
  /\ modeHref = CssFile(dataMode)
  /\ pending = <<>>
  /\ store \in {[p \in PrefProperties |-> None],
                [p \in PrefProperties |->
                   CASE p = "theme" -> dataTheme [] p = "mode" -> dataMode [] OTHER -> None]}
  \* the page shown is the preferences view or another one; initialize()
  \* gives the form elements of the view the stored values
  /\ prefsOpen \in BOOLEAN
  /\ themeOptionsVal = IF prefsOpen THEN store["theme"] ELSE None
  /\ modeRadiosVal = IF prefsOpen THEN store["mode"] ELSE None
  /\ pc = "idle"
  /\ currentTheme = None
  /\ newTheme = None
  /\ lastOp = [op |-> "start", property |-> None, arg |-> None, theme |-> dataTheme, mode |-> dataMode,
               pendLen |-> 0]
  /\ hist = <<>>
  /\ toggles = <<>>

ThemeNext ==
  \/ \E direction \in Directions : SelectNextTheme(direction)
  \/ SelectRandomTheme
  \/ RandomLoop
  \/ \E theme \in ThemeArgs : ApplyTheme(theme)
  \/ ToggleMode
  \/ \E property \in PrefProperties : \E value \in PrefValues(property) :
       SavePreference(property, value)
  \/ StoreApply


\* ------------------------------------------------- KeyboardShortcuts.tsx
\* the instances of the view that may be mounted
Views == {1, 2}

\* the bind(key, section, description, action) calls of the effect, in order
Bindings ==
  << [key |-> "y", section |-> "Navigation", description |-> "Go to today"],
     [key |-> "t", section |-> "Navigation", description |-> "Go to timetable"],
     [key |-> "m", section |-> "Navigation", description |-> "Go to course finder"],
     [key |-> "v", section |-> "Navigation", description |-> "Go to venues page"],
     [key |-> "s", section |-> "Navigation", description |-> "Go to settings"],
     [key |-> "/", section |-> "Navigation", description |-> "Open global search"],
     [key |-> "?", section |-> "Navigation", description |-> "Show this help"],
     [key |-> "o", section |-> "Timetable", description |-> "Switch timetable orientation"],
     [key |-> "d", section |-> "Timetable", description |-> "Open download timetable menu"],
     [key |-> "x", section |-> "Appearance", description |-> "Toggle Night Mode"],
     [key |-> "z", section |-> "Appearance", description |-> "Previous Theme"],
     [key |-> "c", section |-> "Appearance", description |-> "Next Theme"] >>

SingleKeys == {Bindings[i].key : i \in 1..Len(Bindings)}

\* the sequence bound with Mousetrap.bind directly
Konami == "up up down down left right left right b a"
KonamiKeys == <<"up", "up", "down", "down", "left", "right", "left", "right", "b", "a">>

Patterns == SingleKeys \cup {Konami}

ColorSchemes == {"light", "dark"}

\* data/themes.json of the website: the ids cycleTheme steps through
themes == <<"eighties", "ocean", "paraiso">>

\* a callback of the effect: the view that made it, the pattern it is bound
\* to, and the helpShown and colorScheme its closure holds
Handler(v, key, env) ==
  [owner |-> v, key |-> key, helpShown |-> env.helpShown, colorScheme |-> env.colorScheme]

\* no callback (Mousetrap.unbind leaves an empty function)
NoHandler == [owner |-> 0, key |-> None, helpShown |-> FALSE, colorScheme |-> None]

\* Mousetrap.bind(key, action): the last callback bound to a pattern is the
\* one the pattern has
MousetrapBind(tb, key, action) == [tb EXCEPT ![key] = action]

\* Mousetrap.unbind(key)
MousetrapUnbind(tb, key) == [tb EXCEPT ![key] = NoHandler]

\* bind(key, section, description, action) of the effect
bind(st, binding, action) ==
  [shortcuts |-> Append(st.shortcuts, binding),
   table |-> MousetrapBind(st.table, binding.key, action)]

RECURSIVE BindFrom(_, _, _, _)
\* the bind calls from the i-th on
BindFrom(st, v, env, i) ==
  IF i > Len(Bindings) THEN st
  ELSE BindFrom(bind(st, Bindings[i], Handler(v, Bindings[i].key, env)), v, env, i + 1)

\* the body of the effect: the twelve bind calls, then the sequence
Effect(st, v, env) ==
  LET bound == BindFrom(st, v, env, 1) IN
  [shortcuts |-> bound.shortcuts,
   table |-> MousetrapBind(bound.table, Konami, Handler(v, Konami, env))]

RECURSIVE UnbindFrom(_, _, _)
\* shortcuts.current.forEach(({ key }) => Mousetrap.unbind(key)), from the i-th on
UnbindFrom(tb, list, i) ==
  IF i > Len(list) THEN tb
  ELSE UnbindFrom(MousetrapUnbind(tb, list[i].key), list, i + 1)

\* a slip: the list is not emptied
Cleanup_keepsList(st) ==
  [shortcuts |-> st.shortcuts, table |-> UnbindFrom(st.table, st.shortcuts, 1)]

\* a slip: each entry is removed from the list as it is unbound, inside the
\* forEach, which then skips the entry that follows it
Cleanup_spliceInLoop(st) ==
  LET odd == SelectSeq([i \in 1..Len(st.shortcuts) |->
                          [at |-> i, binding |-> st.shortcuts[i]]],
                       LAMBDA e : e.at % 2 = 1)
      even == SelectSeq([i \in 1..Len(st.shortcuts) |->
                           [at |-> i, binding |-> st.shortcuts[i]]],
                        LAMBDA e : e.at % 2 = 0)
  IN [shortcuts |-> [i \in 1..Len(even) |-> even[i].binding],
      table |-> UnbindFrom(st.table, [i \in 1..Len(odd) |-> odd[i].binding], 1)]

\* the cleanup the effect returns
Cleanup(st) ==
  [shortcuts |-> <<>>, table |-> UnbindFrom(st.table, st.shortcuts, 1)]

\* what a render of view v hands to the effect
Env(v) == [helpShown |-> helpShown[v], colorScheme |-> colorScheme]

St(v) == [shortcuts |-> shortcuts[v], table |-> table]

\* no callback invoked
NoFire == [key |-> None, owner |-> 0, shown |-> FALSE, escaped |-> FALSE]

\* no run of key events being followed
NotTyping == [len |-> 0, diff |-> 0, fired |-> 0, again |-> FALSE]

\* a step that is not a key event ends the run of key events
NoKeyEvent ==
  /\ lastFired' = NoFire
  /\ typed' = NotTyping

\* the view is mounted: first render (helpShown false), then the effect
Mount(v) ==
  /\ UNCHANGED <<themeVars, helpVars>>
  /\ ~mounted[v]
  /\ LET env == [helpShown |-> FALSE, colorScheme |-> colorScheme]
         st == Effect(St(v), v, env)
     IN /\ shortcuts' = [shortcuts EXCEPT ![v] = st.shortcuts]
        /\ table' = st.table
        /\ closure' = [closure EXCEPT ![v] = env]
  /\ mounted' = [mounted EXCEPT ![v] = TRUE]
  /\ helpShown' = [helpShown EXCEPT ![v] = FALSE]
  /\ seqLevel' = 0
  /\ cleanups' = [cleanups EXCEPT ![v] = 0]
  /\ NoKeyEvent
  /\ UNCHANGED <<colorScheme, route, themeId, orientation, notification>>

\* helpShown or colorScheme differs from what the effect captured: React runs
\* the cleanup of the old effect and then the effect again
Rerun(v) ==
  /\ UNCHANGED <<themeVars, helpVars>>
  /\ mounted[v]
  /\ closure[v] # Env(v)
  /\ LET st == Effect(Cleanup(St(v)), v, Env(v))
     IN /\ shortcuts' = [shortcuts EXCEPT ![v] = st.shortcuts]
        /\ table' = st.table
  /\ closure' = [closure EXCEPT ![v] = Env(v)]
  /\ seqLevel' = 0
  /\ cleanups' = [cleanups EXCEPT ![v] = 0]
  /\ NoKeyEvent
  /\ UNCHANGED <<mounted, helpShown, colorScheme, route, themeId, orientation,
                 notification>>

\* the view is unmounted: React runs the cleanup
Unmount(v) ==
  /\ UNCHANGED <<themeVars, helpVars>>
  /\ mounted[v]
  /\ LET st == Cleanup(St(v))
     IN /\ shortcuts' = [shortcuts EXCEPT ![v] = st.shortcuts]
        /\ table' = st.table
  /\ mounted' = [mounted EXCEPT ![v] = FALSE]
  /\ helpShown' = [helpShown EXCEPT ![v] = FALSE]
  /\ cleanups' = [cleanups EXCEPT ![v] = 1]
  /\ NoKeyEvent
  /\ UNCHANGED <<closure, seqLevel, colorScheme, route, themeId, orientation,
                 notification>>

\* the cleanup of an unmounted view called once more, nothing having been
\* registered since (React calls it once; whoever holds the function may
\* call it again)
CleanupAgain(v) ==
  /\ UNCHANGED <<themeVars, helpVars>>
  /\ ~mounted[v]
  /\ cleanups[v] >= 1
  /\ LET st == Cleanup(St(v))
     IN /\ shortcuts' = [shortcuts EXCEPT ![v] = st.shortcuts]
        /\ table' = st.table
  /\ cleanups' = [cleanups EXCEPT ![v] = 2]
  /\ NoKeyEvent
  /\ UNCHANGED <<mounted, helpShown, closure, seqLevel, colorScheme, route, themeId,
                 orientation, notification>>

\* closeModal
CloseModal(v) ==
  /\ UNCHANGED <<themeVars, helpVars>>
  /\ mounted[v]
  /\ helpShown[v]
  /\ helpShown' = [helpShown EXCEPT ![v] = FALSE]
  /\ NoKeyEvent
  /\ UNCHANGED <<mounted, shortcuts, closure, table, seqLevel, colorScheme, route,
                 themeId, orientation, notification, cleanups>>

\* invertColorScheme
InvertColorScheme(scheme) == IF scheme = "dark" THEN "light" ELSE "dark"

\* the route a navigation shortcut pushes
RouteOf(key) ==
  CASE key = "y" -> "/today"
    [] key = "t" -> "/timetable"
    [] key = "m" -> "/courses"
    [] key = "v" -> "/venues"
    [] key = "s" -> "/settings"
    [] key = Konami -> "/tetris"

NavigationKeys == {"y", "t", "m", "v", "s", Konami}

\* the theme id after dispatch(cycleTheme(offset))
CycleTheme(id, offset) ==
  LET n == Len(themes)
      i == JsMod(IndexOf(themes, id) + offset, n)
  IN At(themes, IF i < 0 THEN i + n ELSE i)

\* a slip: the notification names the theme of before the dispatch
NotifiedTheme_stale(before, after) == before

\* the theme id notifyThemeChange reads, store.getState().theme.id, given the
\* id in the store before and after the dispatch of cycleTheme
NotifiedTheme(before, after) == after

\* the callback h runs to its end
Run(h) ==
  /\ lastFired' = [key |-> h.key, owner |-> h.owner, shown |-> helpShown[h.owner],
                   escaped |-> FALSE]
  /\ route' = IF h.key \in NavigationKeys THEN RouteOf(h.key) ELSE route
  /\ helpShown' = IF h.key = "?" /\ mounted[h.owner]
                  THEN [helpShown EXCEPT ![h.owner] = ~h.helpShown]
                  ELSE helpShown
  /\ orientation' = IF h.key = "o"
                    THEN (IF orientation = "horizontal" THEN "vertical" ELSE "horizontal")
                    ELSE orientation
  /\ colorScheme' = IF h.key = "x" THEN InvertColorScheme(h.colorScheme) ELSE colorScheme
  /\ themeId' = CASE h.key = "z" -> CycleTheme(themeId, -1)
                  [] h.key = "c" -> CycleTheme(themeId, 1)
                  [] OTHER -> themeId
  /\ notification' =
       CASE h.key = "x" ->
              "Night mode " \o (IF InvertColorScheme(h.colorScheme) = "dark" THEN "on" ELSE "off")
         [] h.key \in {"z", "c"} -> "Theme switched to " \o NotifiedTheme(themeId, themeId')
         [] OTHER -> notification

\* the callbacks that hand control to code of another component: 'd' clicks
\* the download button, whose click handlers may throw
Fallible == {"d"}

\* the callback h throws: bind hands the action to Mousetrap as it is and
\* nothing on the way from the key event to the action catches, so the
\* exception leaves the dispatch
RunThrows(h) ==
  /\ lastFired' = [key |-> h.key, owner |-> h.owner, shown |-> helpShown[h.owner],
                   escaped |-> TRUE]
  /\ UNCHANGED <<route, helpShown, orientation, colorScheme, themeId, notification>>

\* no callback runs
RunNothing ==
  /\ lastFired' = NoFire
  /\ UNCHANGED <<route, helpShown, orientation, colorScheme, themeId, notification>>

\* the keys of the key events the model delivers
PressedKeys == {"y", "d", "?", "x", "z", "c", "up", "down", "left", "right", "b", "a"}

\* a slip: the sequence counts as complete one key early
SeqFires_early(level) == level >= Len(KonamiKeys) - 1

\* the key that brings the sequence to this level is its last
SeqFires(level) == level = Len(KonamiKeys)

\* the run of key events followed, after key k; f is 1 when k made the
\* callback of the sequence run. A run begins with a key event that finds
\* the sequence bound and its buffer empty, is followed while it differs
\* from the sequence in one position at most, and ends with its tenth key.
Typed(k, f) ==
  IF typed.len \in {0, Len(KonamiKeys)}
  THEN IF seqLevel = 0 /\ table[Konami] # NoHandler
       THEN [len |-> 1, diff |-> IF k = KonamiKeys[1] THEN 0 ELSE 1, fired |-> f,
             again |-> typed.len = Len(KonamiKeys) /\ typed.diff = 0 /\ typed.fired = 1]
       ELSE NotTyping
  ELSE IF k = KonamiKeys[typed.len + 1]
       THEN [typed EXCEPT !.len = @ + 1, !.fired = @ + f]
       ELSE IF typed.diff = 0
            THEN [typed EXCEPT !.len = @ + 1, !.diff = typed.len + 1, !.fired = @ + f]
            ELSE NotTyping

\* Mousetrap handles a key event
KeyPress(k) ==
  /\ UNCHANGED <<themeVars, helpVars>>
  /\ UNCHANGED <<mounted, shortcuts, closure, table, cleanups>>
  /\ IF k \in SingleKeys
     THEN IF table[k] # NoHandler
          THEN \/ /\ seqLevel' = 0
                  /\ Run(table[k])
               \* the exception skips what Mousetrap does after the callback,
               \* the reset of the sequence included when it was still to come
               \/ /\ k \in Fallible
                  /\ seqLevel' \in {0, seqLevel}
                  /\ RunThrows(table[k])
          ELSE /\ seqLevel' = 0
               /\ RunNothing
     ELSE IF table[Konami] # NoHandler /\ KonamiKeys[seqLevel + 1] = k
          THEN IF SeqFires(seqLevel + 1)
               THEN /\ seqLevel' = 0
                    /\ Run(table[Konami])
               ELSE /\ seqLevel' = seqLevel + 1
                    /\ RunNothing
          ELSE /\ seqLevel' = 0
               /\ RunNothing
  /\ typed' = Typed(k, IF lastFired'.key = Konami THEN 1 ELSE 0)

\* Mousetrap's timer: a sequence not continued in time starts over
SequenceTimeout ==
  /\ UNCHANGED <<themeVars, helpVars>>
  /\ seqLevel > 0
  /\ seqLevel' = 0
  /\ NoKeyEvent
  /\ UNCHANGED <<mounted, shortcuts, helpShown, closure, table, colorScheme, route,
                 themeId, orientation, notification, cleanups>>

KeysInit ==
  /\ mounted = [v \in Views |-> FALSE]
  /\ shortcuts = [v \in Views |-> <<>>]
  /\ helpShown = [v \in Views |-> FALSE]
  /\ closure = [v \in Views |-> [helpShown |-> FALSE, colorScheme |-> "light"]]
  /\ table = [p \in Patterns |-> NoHandler]
  /\ seqLevel = 0
  /\ colorScheme = "light"
  /\ route = "/"
  /\ themeId = At(themes, 0)
  /\ orientation = "horizontal"
  /\ notification = None
  /\ lastFired = NoFire
  /\ typed = NotTyping
  /\ cleanups = [v \in Views |-> 0]

\* ------------------------------- the help listing (KeyboardShortcuts.tsx)
\* longest list of bindings given to the grouping
MaxList == 3

\* the bindings a list given to the grouping is made of
ListKeys == {"y", "x", "t"}
Sections == {"Navigation", "Timetable", "Appearance"}
ListEntries ==
  {[key |-> k, section |-> sec, description |-> "Shortcut " \o k] :
     k \in ListKeys, sec \in Sections}

\* (shortcut) => shortcut.section, the iteratee of the grouping
SectionOf(shortcut) == shortcut.section

\* the group of key `key` after entry e: e at its end
Push(group, e) == [group EXCEPT !.shortcuts = Append(@, e)]

RECURSIVE GroupFrom(_, _, _)
\* lodash groupBy from the i-th entry on: an entry goes to the end of the
\* group of its key, a key not seen before gets a new group after the others
GroupFrom(acc, list, i) ==
  IF i > Len(list) THEN acc
  ELSE LET key == SectionOf(list[i])
           at == {j \in 1..Len(acc) : acc[j].section = key}
       IN GroupFrom(IF at = {}
                    THEN Append(acc, [section |-> key, shortcuts |-> <<list[i]>>])
                    ELSE [j \in 1..Len(acc) |->
                            IF j \in at THEN Push(acc[j], list[i]) ELSE acc[j]],
                    list, i + 1)

RECURSIVE Reversed(_)
Reversed(s) == IF s = <<>> THEN <<>> ELSE Append(Reversed(Tail(s)), Head(s))

\* a slip: the entries are put at the front of their group
groupBy_unshift(list) ==
  LET groups == GroupFrom(<<>>, list, 1)
  IN [j \in 1..Len(groups) |->
        [groups[j] EXCEPT !.shortcuts = Reversed(@)]]

\* groupBy(shortcuts.current, (shortcut) => shortcut.section) of lodash
groupBy(list) == GroupFrom(<<>>, list, 1)

\* the render: the sections of the list, then map(sections, ...) in the
\* order of the keys of the object groupBy returns
RenderHelp ==
  /\ UNCHANGED <<themeVars, keyVars>>
  /\ sections' = groupBy(listing)
  /\ UNCHANGED listing

\* a list of bindings, not yet rendered
HelpInit ==
  /\ listing \in UNION {[1..n -> ListEntries] : n \in 0..MaxList}
  /\ sections = <<>>

\* the listing of a view that is not rendered
HelpRest ==
  /\ listing = <<>>
  /\ sections = <<>>

\* ---------------------------------------------------------- specifications
\* the theme picker, over every catalog
ThemeSpecInit == ThemeInit /\ KeysInit /\ HelpRest

ThemeSpec == ThemeSpecInit /\ [][ThemeNext]_vars

\* the theme picker at rest, for the specifications of the view
ThemeRest ==
  /\ ThemeInit
  /\ themeOptions = <<"A", "B", "C">>
  /\ dataTheme = "A"
  /\ dataMode = "default"
  /\ store["theme"] = None
  /\ ~prefsOpen

KeysSpecInit == ThemeRest /\ KeysInit /\ HelpRest

\* the website mounts one KeyboardShortcuts view
OneView == {1}

KeysNext ==
  \/ \E v \in OneView : Mount(v)
  \/ \E v \in OneView : Rerun(v)
  \/ \E v \in OneView : Unmount(v)
  \/ \E v \in OneView : CleanupAgain(v)
  \/ \E v \in OneView : CloseModal(v)
  \/ \E k \in PressedKeys : KeyPress(k)
  \/ SequenceTimeout

KeysSpec == KeysSpecInit /\ [][KeysNext]_vars

\* the keys of the key events delivered to two instances of the view
MultiKeys == {"y", "?", "x", "up"}

\* two instances of the view over the one Mousetrap table
KeysMultiNext ==
  \/ \E v \in Views : Mount(v)
  \/ \E v \in Views : Rerun(v)
  \/ \E v \in Views : Unmount(v)
  \/ \E v \in Views : CloseModal(v)
  \/ \E k \in MultiKeys : KeyPress(k)
  \/ SequenceTimeout

KeysMultiSpec == KeysSpecInit /\ [][KeysMultiNext]_vars


\* the grouping of the help listing, over every list of up to MaxList bindings
HelpSpecInit == ThemeRest /\ KeysInit /\ HelpInit

HelpNext == RenderHelp

HelpSpec == HelpSpecInit /\ [][HelpNext]_vars

\* ------------------------------------------------------------------ claims
\* the patterns that have a callback in Mousetrap's table
Installed == {p \in Patterns : table[p] # NoHandler}

\* the patterns of shortcuts.current, in its order
ListedKeys(v) == [i \in 1..Len(shortcuts[v]) |-> shortcuts[v][i].key]

\* C1: once the cleanup of a view has run, no pattern of the table holds a
\* callback that the view installed, the 10-key sequence included.
C1_NoBindingOutlivesView ==
  \A v \in Views : ~mounted[v] => \A p \in Patterns : table[p].owner # v

\* C2: a single key held by a registration that stays active keeps the
\* callback of that registration: a second registration of the key is not
\* installed.
C2_FirstRegistrationKept ==
  [][\A k \in SingleKeys :
       (table[k] # NoHandler /\ mounted'[table[k].owner])
         => table'[k].owner = table[k].owner]_vars

\* C3 as stated: while the view is active, shortcuts.current has exactly one
\* entry, in registration order, for every pattern installed in the table.
C3_ListIsTable ==
  \A v \in OneView :
    mounted[v] => /\ Distinct(ListedKeys(v))
                  /\ Range(ListedKeys(v)) = Installed

\* C3 amended: while the view is active, shortcuts.current is the twelve
\* bindings made through bind, once each and in registration order, every one
\* of them installed in the table; the 10-key sequence is installed too and
\* is not in the list.
C3_ListIsBoundKeys ==
  \A v \in OneView :
    mounted[v] => /\ shortcuts[v] = Bindings
                  /\ Installed = Range(ListedKeys(v)) \cup {Konami}
                  /\ Konami \notin Range(ListedKeys(v))
                  /\ \A p \in Installed : table[p].owner = v

C3_Witness ==
  /\ mounted[1]
  /\ closure[1].helpShown
  /\ closure[1].colorScheme = "dark"
  /\ Len(shortcuts[1]) = Len(Bindings)

\* C4: with a catalog of one theme that is the current theme, the do-while
\* of selectRandomTheme can end (and then applies that theme).
C4_SingleThemeLoopEnds ==
  (pc = "loop" /\ Len(themeOptions) = 1 /\ currentTheme = themeOptions[1])
    => ENABLED (RandomLoop /\ pc' = "idle")

\* C5: for a catalog of two or more distinct themes, once selectRandomTheme
\* has returned the theme applied is in the catalog and is not the theme that
\* was current at the call.
C5_RandomIsAnotherMember ==
  (lastOp.op = "selectRandomTheme" /\ pc = "idle"
     /\ Len(themeOptions) >= 2 /\ Distinct(themeOptions))
    => /\ dataTheme \in Range(themeOptions)
       /\ dataTheme # lastOp.theme
       /\ newTheme = dataTheme

C5_Witness ==
  /\ lastOp.op = "selectRandomTheme"
  /\ pc = "idle"
  /\ Len(themeOptions) = MaxCatalog
  /\ Distinct(themeOptions)
  /\ lastOp.theme \in Range(themeOptions)
  /\ dataTheme # lastOp.theme

\* the last call asked for a theme the catalog does not hold
UnknownThemeApplied ==
  /\ \/ lastOp.op = "applyTheme"
     \/ lastOp.op = "savePreference" /\ lastOp.property = "theme"
  /\ lastOp.arg \notin Range(themeOptions)

\* C6: applying a theme that is not in the catalog changes nothing: the
\* current theme and the classes of the body are as before the call, and the
\* call has given the store no theme to write.
C6_UnknownThemeRejected ==
  UnknownThemeApplied
    => /\ dataTheme = lastOp.theme
       /\ bodyClass.theme = lastOp.theme
       /\ \A i \in 1..Len(pending) : i > lastOp.pendLen => pending[i].key # "theme"

\* C7: the current theme is in the catalog and the mode is 'default' or
\* 'slate', in every reachable state.
C7_AppearanceInvariant ==
  /\ dataTheme \in Range(themeOptions)
  /\ dataMode \in Modes

\* the step of selectNextTheme in each direction
Delta(direction) == IF direction = "Left" THEN -1 ELSE 1

\* C8: selectNextTheme applies catalog[(index + delta + length) % length],
\* index being the (first) position of the current theme and delta -1 for
\* 'Left' (backward), +1 for 'Right' (forward).
C8_NextIsWrappedNeighbour ==
  (lastOp.op = "selectNextTheme" /\ lastOp.theme \in Range(themeOptions))
    => LET length == Len(themeOptions)
           index == IndexOf(themeOptions, lastOp.theme)
       IN dataTheme = At(themeOptions, (index + Delta(lastOp.arg) + length) % length)

\* catalog [A,B,C]: forward from C gives A (the wrap at the end), and then
\* backward from A gives C (the wrap at the start)
C8_Witness ==
  /\ themeOptions = <<"A", "B", "C">>
  /\ lastOp.op = "selectNextTheme"
  /\ hist = << [dir |-> "Right", before |-> "C", after |-> "A"],
               [dir |-> "Left", before |-> "A", after |-> "C"] >>
  /\ dataTheme = "C"

\* the last two calls were selectNextTheme forward, then backward, from a
\* theme of a catalog of two or more themes
ForwardThenBackward ==
  /\ lastOp.op = "selectNextTheme"
  /\ Len(hist) >= 2
  /\ hist[Len(hist) - 1].dir = "Right"
  /\ hist[Len(hist)].dir = "Left"
  /\ Len(themeOptions) >= 2
  /\ hist[Len(hist) - 1].before \in Range(themeOptions)

\* C9 as stated: for every catalog of two or more themes, forward then
\* backward ends on the theme the two calls started from.
C9_ForwardBackward ==
  ForwardThenBackward => dataTheme = hist[Len(hist) - 1].before

\* C9 amended: the same, for catalogs whose theme ids are distinct.
C9_ForwardBackwardDistinct ==
  (ForwardThenBackward /\ Distinct(themeOptions))
    => dataTheme = hist[Len(hist) - 1].before

C9_Witness ==
  /\ ForwardThenBackward
  /\ Distinct(themeOptions)
  /\ Len(themeOptions) = MaxCatalog
  /\ hist[Len(hist) - 1].before = themeOptions[Len(themeOptions)]

\* the last Len(themeOptions) calls were all selectNextTheme forward, from a
\* theme of a catalog of two or more distinct themes
FullForwardRound ==
  /\ lastOp.op = "selectNextTheme"
  /\ Len(themeOptions) >= 2
  /\ Distinct(themeOptions)
  /\ Len(hist) >= Len(themeOptions)
  /\ \A i \in (Len(hist) - Len(themeOptions) + 1)..Len(hist) : hist[i].dir = "Right"
  /\ hist[Len(hist) - Len(themeOptions) + 1].before \in Range(themeOptions)

\* C10: n forward calls on a catalog of n >= 2 distinct themes apply every
\* theme of the catalog exactly once and end on the theme they started from.
C10_ForwardRoundCoversCatalog ==
  FullForwardRound
    => LET n == Len(themeOptions)
           first == Len(hist) - n + 1
           applied == [i \in 1..n |-> hist[first + i - 1].after]
       IN /\ Distinct(applied)
          /\ Range(applied) = Range(themeOptions)
          /\ applied[n] = hist[first].before
          /\ dataTheme = hist[first].before

C10_Witness ==
  /\ FullForwardRound
  /\ Len(themeOptions) = MaxCatalog
  /\ hist[1].before = themeOptions[2]

\* the theme or mode the page shows
UiValue(p) == IF p = "theme" THEN dataTheme ELSE dataMode

\* the positions in the queue of the writes of property p still in flight
Written(p) == {i \in 1..Len(pending) : pending[i].key = p}

\* the store holds a value of p that is not the one the page shows
Diverged(p) == store[p] # None /\ store[p] # UiValue(p)

C12_ToggleTwiceRestores ==
  Len(toggles) = 2 => dataMode = toggles[1]

C12_Witness ==
  /\ Len(toggles) = 2
  /\ toggles = <<"slate", "default">>
  /\ dataMode = "slate"
  /\ lastOp.op = "toggleMode"

\* C20: after savePreference('mode', v) the applied mode is v and the last
\* write queued for the store carries v, whatever the mode was before.
C20_ModeIsValue ==
  (lastOp.op = "savePreference" /\ lastOp.property = "mode")
    => /\ dataMode = lastOp.arg
       /\ pending # <<>>
       /\ pending[Len(pending)] = [key |-> "mode", value |-> lastOp.arg]

\* C13: a second call of the cleanup, nothing having been registered since
\* the first, leaves the table and the list as the first call left them.
C13_SecondCleanupNoOp ==
  [][\A v \in OneView :
       (cleanups[v] >= 1 /\ cleanups'[v] = 2)
         => (table' = table /\ shortcuts' = shortcuts)]_vars

\* the cleanup was called twice after a re-run with the help shown
C13_Witness ==
  /\ cleanups[1] = 2
  /\ ~mounted[1]
  /\ shortcuts[1] = <<>>
  /\ table[Konami].helpShown

\* C14: an exception a callback raises does not leave the dispatch of the
\* key event.
C14_HandlerFailureCaught == ~lastFired.escaped

C16_NotifiesThemeAfterStep ==
  (lastFired.key \in {"z", "c"})
    => notification = "Theme switched to " \o themeId

\* 'c' pressed after other 'z' or 'c' presses, with the callbacks of the mount
C16_Witness ==
  /\ lastFired.key = "c"
  /\ themeId = At(themes, 0)
  /\ notification = "Theme switched to eighties"
  /\ table["c"].helpShown = FALSE
  /\ table["c"].colorScheme = "light"

\* the position in list of the first entry of section sec
FirstAt(list, sec) == Min({i \in 1..Len(list) : list[i].section = sec})

\* the entries of list that are of section sec, in the order of list
OfSection(list, sec) == SelectSeq(list, LAMBDA e : e.section = sec)

Example ==
  << [key |-> "y", section |-> "Navigation", description |-> "Shortcut y"],
     [key |-> "x", section |-> "Appearance", description |-> "Shortcut x"],
     [key |-> "t", section |-> "Navigation", description |-> "Shortcut t"] >>

ExampleGroups ==
  << [section |-> "Navigation", shortcuts |-> <<Example[1], Example[3]>>],
     [section |-> "Appearance", shortcuts |-> <<Example[2]>>] >>

\* C17: the rendered groups are the sections of the list, in the order in
\* which the list first names them, each with its entries in the order of
\* the list; [y:Navigation, x:Appearance, t:Navigation] gives Navigation
\* [y, t], then Appearance [x].
C17_GroupedInOrder ==
  sections # <<>> =>
    /\ {sections[i].section : i \in 1..Len(sections)}
         = {listing[i].section : i \in 1..Len(listing)}
    /\ \A i, j \in 1..Len(sections) :
         i < j => FirstAt(listing, sections[i].section)
                    < FirstAt(listing, sections[j].section)
    /\ \A i \in 1..Len(sections) :
         sections[i].shortcuts = OfSection(listing, sections[i].section)
    /\ listing = Example => sections = ExampleGroups

C17_Witness ==
  /\ listing = Example
  /\ sections = ExampleGroups

\* C18: a press of '?' leaves the help shown if it was hidden at the press
\* and hidden if it was shown.
C18_HelpKeyInverts ==
  lastFired.key = "?" => helpShown[lastFired.owner] = ~lastFired.shown

\* C19: the list of a view never names a key twice: it has the twelve
\* bindings of one run of the effect while the view is active and is empty
\* once the view is unmounted.
C19_NoDuplicateEntries ==
  \A v \in OneView :
    /\ Distinct(ListedKeys(v))
    /\ mounted[v] => Len(shortcuts[v]) = Len(Bindings)
    /\ ~mounted[v] => shortcuts[v] = <<>>

\* unmounted after two re-runs of the effect
C19_Witness ==
  /\ ~mounted[1]
  /\ cleanups[1] = 1
  /\ shortcuts[1] = <<>>
  /\ table[Konami].helpShown
  /\ table[Konami].colorScheme = "dark"

====
